---------------------------- MODULE Spec2Model ----------------------------
(* Model of the provider layer (src/lib/ai_providers.ts, lines 1-650) and  *)
(* of the server actions that orchestrate it (the actions.ts listing kept  *)
(* in src/README.md, lines 206-486).                                       *)
(*                                                                         *)
(* Texts are modelled by what the code looks at.  A summary text is a      *)
(* sequence of tokens; a backend text that the code splits into lines is a *)
(* sequence of line records (the empty string is the single empty line,    *)
(* as ''.split('\n') is ['']).                                             *)
EXTENDS Integers, Sequences, FiniteSets, TLC

VARIABLES
  geminiKey,      \* process.env.GEMINI_API_KEY is set (GeminiProvider.client # null)
  groqKey,        \* process.env.GROQ_API_KEY is set (GroqProvider.client # null)
  providerState,  \* the registry record: models and selectedModel of ollama and groq
  instanceModel,  \* the private selectedModel field of the Groq and Ollama adapters
  call,           \* the orchestration call in flight (or the last one returned)
  pipes,          \* one generateSingleBriefingForInterest promise per topic
  response,       \* what the orchestration call returned
  genCalls,       \* the AIProviderManager calls made by the call in flight
  parse,          \* input and output of an adapter's output parser
  lastListed      \* what the last listOllamaModels and listGroqModels calls returned

vars == <<geminiKey, groqKey, providerState, instanceModel, call, pipes,
          response, genCalls, parse, lastListed>>

NULL == "<null>"

\* ------------------------------------------------------------------ bounds

MaxTopics == 2

MaxLines == 4

MaxJsonTopics == 4

\* ------------------------------------------------------------ program data

Providers == {"gemini", "groq", "ollama"}

GEMINI_MODEL == "gemini-2.5-flash"

OLLAMA_MOCK_MODELS == <<"llama2", "llama2:13b", "codellama">>

GROQ_FALLBACK_MODELS == <<"llama3-8b-8192", "llama3-70b-8192", "mixtral-8x7b-32768">>

Includes(s, x) == \E i \in 1..Len(s) : s[i] = x


\* ------------------------------------------------------ summary text, markdown

\* A summary text is a sequence of tokens; these are the whitespace tokens.
Whitespace == {" ", "\n"}

SCRIPT_TAG == "<script>x</script>"

RECURSIVE TrimLeft(_)
TrimLeft(t) ==
  IF t # <<>> /\ Head(t) \in Whitespace THEN TrimLeft(Tail(t)) ELSE t

RECURSIVE TrimRight(_)
TrimRight(t) ==
  IF t # <<>> /\ t[Len(t)] \in Whitespace
    THEN TrimRight(SubSeq(t, 1, Len(t) - 1)) ELSE t

\* String.prototype.trim
Trim(t) == TrimRight(TrimLeft(t))

IsScript(tok) == tok = SCRIPT_TAG

NotScript(tok) == ~IsScript(tok)

\* renderMarkdown: script elements are cut out, then marked() renders the text:
\* a blank text renders to the empty string, any other to a paragraph that ends
\* with a newline.
renderMarkdown(markdown) ==
  LET cleanMarkdown == SelectSeq(markdown, NotScript)
  IN  IF Trim(cleanMarkdown) = <<>>
        THEN <<>>
        ELSE <<"<p>">> \o Trim(cleanMarkdown) \o <<"</p>", "\n">>

\* ------------------------------------------------------------- tweet parser

TweetMinLength == 10

TweetMaxLength == 270

TweetKeep == 267

MaxTweets == 3

EllipsisLength == 3

\* A line of a backend text: k is its position in the text, len the length of
\* the trimmed line, pad the whitespace around it, fence whether the trimmed
\* line starts with ```, word whether it contains 'tweet'.
TrimLineNone(line) == line

TrimLine(line) == [line EXCEPT !.pad = 0]

LineLength(line) == line.len + line.pad

RECURSIVE MapSeq(_, _)
MapSeq(Op(_), s) ==
  IF s = <<>> THEN <<>> ELSE <<Op(Head(s))>> \o MapSeq(Op, Tail(s))

SliceAll(s, n) == s

Slice(s, n) == SubSeq(s, 1, IF Len(s) < n THEN Len(s) ELSE n)

\* .filter(line => line.length > 10 && !line.startsWith('```') && !line.includes('tweet'))
Qualifies(line) ==
  LineLength(line) > TweetMinLength /\ ~line.fence /\ ~line.word

TruncateKeepMax(line) ==
  IF LineLength(line) > TweetMaxLength
    THEN [kind |-> "line", k |-> line.k, keep |-> TweetMaxLength, ellipsis |-> TRUE]
    ELSE [kind |-> "line", k |-> line.k, keep |-> LineLength(line), ellipsis |-> FALSE]

\* .map(tweet => tweet.length > 270 ? tweet.substring(0, 267) + '...' : tweet)
Truncate(line) ==
  IF LineLength(line) > TweetMaxLength
    THEN [kind |-> "line", k |-> line.k, keep |-> TweetKeep, ellipsis |-> TRUE]
    ELSE [kind |-> "line", k |-> line.k, keep |-> LineLength(line), ellipsis |-> FALSE]

PostLength(post) == post.keep + (IF post.ellipsis THEN EllipsisLength ELSE 0)

\* The three fixed posts an adapter returns when no line qualifies.
PLACEHOLDER_TWEETS ==
  << [kind |-> "generic", k |-> 1], [kind |-> "generic", k |-> 2],
     [kind |-> "generic", k |-> 3] >>

ParseTweetsNoPlaceholder(content) ==
  Slice(MapSeq(Truncate, SelectSeq(MapSeq(TrimLine, content), Qualifies)), MaxTweets)

\* content.split('\n').map(trim).filter(...).map(...).slice(0, 3), and the
\* placeholders when nothing is left (the same code in the three adapters).
ParseTweets(content) ==
  LET tweets ==
        Slice(MapSeq(Truncate, SelectSeq(MapSeq(TrimLine, content), Qualifies)),
              MaxTweets)
  IN  IF Len(tweets) > 0 THEN tweets ELSE PLACEHOLDER_TWEETS

EMPTY_TEXT ==
  << [k |-> 1, len |-> 0, pad |-> 0, fence |-> FALSE, word |-> FALSE] >>

\* A backend answer is [null, text]: null when the SDK object carries no text.
\* completion.choices[0]?.message?.content || ''   and   response.response || ''
OrEmpty(answer) == IF answer.null THEN EMPTY_TEXT ELSE answer.text

\* The text an adapter reads from the backend's answer: Gemini's
\* response.text() is used as it is, Groq and Ollama default to ''.
ContentOf(provider, answer) ==
  IF provider = "gemini" THEN answer.text ELSE OrEmpty(answer)

\* ---------------------------------------------------------- trending parser

MaxTrending == 3

Min(a, b) == IF a < b THEN a ELSE b

Topic(title, description) == [title |-> title, description |-> [text |-> description]]

\* The JSON value null as an element of a topics list: JSON.parse accepts
\* {"topics": [null]} and the cast to TrendingTopic[] checks nothing.
NULL_TOPIC == [null |-> TRUE]

IsNullTopic(topic) == "null" \in DOMAIN topic

GEMINI_FALLBACK_TOPICS ==
  << Topic("Technology Updates", "Latest tech developments"),
     Topic("Global Politics", "Recent political developments"),
     Topic("Economic News", "Financial market updates") >>

GROQ_FALLBACK_TOPICS ==
  << Topic("Technology Updates", "Latest tech developments and innovations"),
     Topic("Global Politics", "Recent political developments worldwide"),
     Topic("Economic News", "Financial market updates and economic trends") >>

OLLAMA_FALLBACK_TOPICS ==
  << Topic("AI Development", "Latest AI advancements"),
     Topic("Tech Innovation", "New technology releases"),
     Topic("Market Updates", "Financial developments") >>

\* A trending answer's text is [json, hasTopics, topics, lines]: json is what
\* JSON.parse makes of it ("invalid": it throws, "null": the value null,
\* "object": an object), hasTopics and topics its topics property, lines the
\* lines of the text itself.  A line is [k, len, pad, colon, clean, head, tail]:
\* colon says where indexOf(':') falls in the cleaned line ("none", "first",
\* "inside"), clean is the cleaned line, head and tail its parts around the colon.

\* try { parsed = JSON.parse(content); return parsed.topics || [] } catch { fallback }
StrictTopicsOrFallback(content, fallback) ==
  IF content.json = "object"
    THEN (IF content.hasTopics THEN content.topics ELSE <<>>)
    ELSE fallback

\* GeminiProvider.getTrendingTopics, after the backend's answer
GeminiTrending(content) == StrictTopicsOrFallback(content, GEMINI_FALLBACK_TOPICS)

\* OllamaProvider.getTrendingTopics, after the backend's answer
OllamaTrending(content) == StrictTopicsOrFallback(content, OLLAMA_FALLBACK_TOPICS)

LongLine(line) == TrimLine(line).len > TweetMinLength

\* the body of the for loop: the title and description taken from one line
ExtractTopic(line) ==
  IF line.colon = "inside"
    THEN [title |-> line.head, description |-> [text |-> line.tail]]
    ELSE [title |-> line.clean, description |-> [recent |-> line.clean]]

GroqTextTopics(content) ==
  LET lines == SelectSeq(content.lines, LongLine)
  IN  [i \in 1..Min(Len(lines), MaxTrending) |-> ExtractTopic(TrimLine(lines[i]))]

\* GroqProvider.getTrendingTopics, after the backend's answer
GroqTrending(content) ==
  IF content.json = "object" /\ content.hasTopics /\ Len(content.topics) > 0
    THEN Slice(content.topics, MaxTrending)
    ELSE LET topics == GroqTextTopics(content)
         IN  IF Len(topics) = 0
               THEN GROQ_FALLBACK_TOPICS
               ELSE Slice(topics, MaxTrending)

EMPTY_TRENDING ==
  [json |-> "invalid", hasTopics |-> FALSE, topics |-> <<>>,
   lines |-> << [k |-> 1, len |-> 0, pad |-> 0, colon |-> "none",
                 clean |-> "", head |-> "", tail |-> ""] >>]

TrendingContentOf(provider, answer) ==
  IF provider = "gemini" \/ ~answer.null THEN answer.text ELSE EMPTY_TRENDING

\* The part of getTrendingTopics that follows the backend's answer.
TrendingOfAnswer(provider, answer) ==
  CASE provider = "gemini" -> GeminiTrending(TrendingContentOf(provider, answer))
    [] provider = "groq"   -> GroqTrending(TrendingContentOf(provider, answer))
    [] provider = "ollama" -> OllamaTrending(TrendingContentOf(provider, answer))

\* ----------------------------------------------------------- model registry

\* Array.prototype.sort on model ids: the ids the model uses, in sort order.
ID_SORT_ORDER == <<"gemma2-9b-it", "llama3-70b-8192", "llama3-8b-8192", "mixtral-8x7b-32768">>

\* (models.data || []).filter(model => model.id).map(model => model.id).sort()
\* data is the sequence of the ids of the listed models, "" for a model with no id.
SortedIds(data) ==
  LET present(id) == Includes(data, id)
      count(id) == Cardinality({i \in 1..Len(data) : data[i] = id})
      RECURSIVE build(_)
      build(n) ==
        IF n > Len(ID_SORT_ORDER) THEN <<>>
        ELSE [i \in 1..count(ID_SORT_ORDER[n]) |-> ID_SORT_ORDER[n]] \o build(n + 1)
  IN  build(1)

\* GeminiProvider.isAvailable, GroqProvider.isAvailable, OllamaProvider.isAvailable
isAvailable(provider) ==
  CASE provider = "gemini" -> geminiKey
    [] provider = "groq"   -> groqKey
    [] provider = "ollama" -> TRUE

getName(provider) ==
  CASE provider = "gemini" -> "Google Gemini"
    [] provider = "groq"   -> "Groq"
    [] provider = "ollama" -> "Ollama (Local)"

OllamaListedEmpty(ps) ==
  [ps EXCEPT !.ollama = [models |-> <<>>, selectedModel |-> NULL]]

OllamaListedKeepSelection(ps) ==
  [ps EXCEPT !.ollama =
     [models |-> OLLAMA_MOCK_MODELS,
      selectedModel |-> IF ps.ollama.selectedModel # NULL
                          THEN ps.ollama.selectedModel ELSE OLLAMA_MOCK_MODELS[1]]]

\* listOllamaModels: what it leaves in providerState (its try body cannot throw)
OllamaListed(ps) ==
  [ps EXCEPT !.ollama =
     [models |-> OLLAMA_MOCK_MODELS,
      selectedModel |-> IF Len(OLLAMA_MOCK_MODELS) > 0
                          THEN OLLAMA_MOCK_MODELS[1] ELSE NULL]]

GroqListedResetSelection(ps, listing) ==
  [ps EXCEPT !.groq =
     [models |-> IF ~isAvailable("groq") THEN <<>>
                 ELSE IF listing.failed THEN GROQ_FALLBACK_MODELS
                 ELSE SortedIds(listing.data),
      selectedModel |-> NULL]]

GroqListedEmptyOnFailure(ps, listing) ==
  [ps EXCEPT !.groq.models =
     IF ~isAvailable("groq") \/ listing.failed THEN <<>>
     ELSE SortedIds(listing.data)]

\* listGroqModels: what it leaves in providerState.  listing is the backend's
\* answer to models.list(): [failed, data].
GroqListed(ps, listing) ==
  [ps EXCEPT !.groq.models =
     IF ~isAvailable("groq") THEN <<>>
     ELSE IF listing.failed THEN GROQ_FALLBACK_MODELS
     ELSE SortedIds(listing.data)]

\* what listOllamaModels returns
OllamaModelsReturned == OLLAMA_MOCK_MODELS

\* what listGroqModels returns
GroqModelsReturned(listing) ==
  IF ~isAvailable("groq") THEN <<>>
  ELSE IF listing.failed THEN GROQ_FALLBACK_MODELS
  ELSE SortedIds(listing.data)

getSelectedOllamaModel == providerState.ollama.selectedModel

getSelectedGroqModel == providerState.groq.selectedModel

\* The selected model of a provider as the registry reports it.
getSelectedModel(provider) ==
  CASE provider = "ollama" -> getSelectedOllamaModel
    [] provider = "groq"   -> getSelectedGroqModel
    [] provider = "gemini" -> GEMINI_MODEL

AvailableProvidersByModels(ps) ==
  (IF isAvailable("gemini") THEN <<"gemini">> ELSE <<>>)
  \o (IF isAvailable("groq") /\ Len(ps.groq.models) > 0 THEN <<"groq">> ELSE <<>>)
  \o (IF Len(ps.ollama.models) > 0 THEN <<"ollama">> ELSE <<>>)

\* getAvailableProviders, given providerState as listOllamaModels left it
AvailableProviders(ps) ==
  (IF isAvailable("gemini") THEN <<"gemini">> ELSE <<>>)
  \o (IF isAvailable("groq") THEN <<"groq">> ELSE <<>>)
  \o (IF Len(ps.ollama.models) > 0 THEN <<"ollama">> ELSE <<>>)

\* ------------------------------------------------------- AIProviderManager

RequiresModel(provider) == provider \in {"groq", "ollama"}

SyncedModelStale(inst, ps, provider) == inst

SyncedModelGroqOnly(inst, ps, provider) ==
  IF provider = "groq" /\ ps[provider].selectedModel # NULL
    THEN [inst EXCEPT ![provider] = ps[provider].selectedModel]
    ELSE inst

\* "Set selected model for providers that need it": the adapter's field after
\* the manager copied the registry's selection into it (only when there is one).
SyncedModel(inst, ps, provider) ==
  IF RequiresModel(provider) /\ ps[provider].selectedModel # NULL
    THEN [inst EXCEPT ![provider] = ps[provider].selectedModel]
    ELSE inst

ModelUsed(inst, provider) ==
  IF provider = "gemini" THEN GEMINI_MODEL ELSE inst[provider]

CallOutcomeDefaultModel(inst, provider) ==
  IF ~isAvailable(provider) THEN getName(provider) \o " is not available"
  ELSE "issued"

\* The checks made before the backend is called, by the manager and then by
\* the adapter: "issued" when the backend call is made, else the message thrown.
CallOutcome(inst, provider) ==
  IF ~isAvailable(provider) THEN getName(provider) \o " is not available"
  ELSE IF provider = "gemini" THEN "issued"
  ELSE IF inst[provider] = NULL
    THEN (IF provider = "groq"
            THEN "No Groq model selected. Please select a model first."
            ELSE "No Ollama model selected")
  ELSE "issued"

\* The record of one AIProviderManager call: the provider it went to, the
\* selection the registry reported when it was made, the model it carried.
CallRecord(op, inst, ps, provider) ==
  [op |-> op, provider |-> provider,
   registry |-> IF provider = "gemini" THEN GEMINI_MODEL ELSE ps[provider].selectedModel,
   model |-> ModelUsed(inst, provider),
   outcome |-> CallOutcome(inst, provider)]

\* ------------------------------------------------------------ orchestrator

NO_PROVIDERS == [text |-> "No AI providers available. Please configure at least one provider."]

NO_TOPICS == [text |-> "Unable to fetch trending topics. Please try again later."]

\* reading .title of null: the TypeError the callback of topics.slice(0, 3).map throws
NULL_TITLE_ERROR == "Cannot read properties of null (reading 'title')"

\* the catch of generateTrendingBriefing
TrendingCatch(message) ==
  [briefings |-> <<>>,
   errors |-> <<[prefix |-> "Failed to generate trending briefing", message |-> message]>>]

FAILED_SUMMARY == <<"Failed to generate summary due to an error.">>

EMPTY_SUMMARY_ERROR == "Empty summary generated"

UNKNOWN_ERROR == "Unknown error occurred"

IdleCall ==
  [op |-> "none", phase |-> "idle", requested |-> NULL, available |-> <<>>,
   provider |-> NULL, interests |-> <<>>, topics |-> <<>>, discovered |-> FALSE]

NoResponse == [briefings |-> <<>>, errors |-> <<>>]

ResolveLast(available, requested) ==
  IF Includes(available, requested) THEN requested
  ELSE IF Len(available) > 0 THEN available[Len(available)]
  ELSE NULL

\* "Check if provider is available ... Fallback to first available provider"
ResolveProvider(available, requested) ==
  IF Includes(available, requested) THEN requested
  ELSE IF Len(available) > 0 THEN available[1]
  ELSE NULL

\* error instanceof Error ? error.message : 'Unknown error occurred'
\* A failure is [isError, message]: what a backend call rejected with.
\* A pipeline is [pc, interest, ...]: awaiting its summary call ("summary") or
\* its tweets call ("tweets", with the summary and sources), or settled:
\* "fulfilled" with its value (posts tells how the tweets call ended) or
\* "rejected" with its reason (cause tells what rejected it: the call "thrown"
\* before the backend was reached, the "backend", or an "empty" summary).
RethrownMessage(failure) ==
  IF failure.isError THEN failure.message ELSE UNKNOWN_ERROR

\* the tweets substituted when generateTweets fails, built from the interest
TopicPlaceholders(interest) ==
  [n \in 1..3 |-> [kind |-> "topic", k |-> n, interest |-> interest]]

\* the BriefingItem generateSingleBriefingForInterest returns
BriefingItem(interest, summary, sources, tweets) ==
  [interest |-> interest, summary |-> Trim(summary), sources |-> sources,
   tweets |-> Slice(tweets, MaxTweets)]

ErrorItemUnknown(interest, errorMessage) ==
  [interest |-> interest, summary |-> FAILED_SUMMARY, sources |-> <<>>,
   tweets |-> <<>>, error |-> UNKNOWN_ERROR]

ErrorItemWithPosts(interest, errorMessage) ==
  [interest |-> interest, summary |-> FAILED_SUMMARY, sources |-> <<>>,
   tweets |-> TopicPlaceholders(interest), error |-> errorMessage]

\* the "error briefing item" pushed for a rejected pipeline
ErrorItem(interest, errorMessage) ==
  [interest |-> interest, summary |-> FAILED_SUMMARY, sources |-> <<>>,
   tweets |-> <<>>, error |-> errorMessage]

ErrorLine(prefix, interest, errorMessage) ==
  [prefix |-> prefix, topic |-> interest, message |-> errorMessage]

HasError(item) == "error" \in DOMAIN item

Settled(pipe) == pipe.pc \in {"fulfilled", "rejected"}

Rejected(pipe) == pipe.pc = "rejected"

\* The pipelines as they stand when the synchronous part of
\* interests.map(generateSingleBriefingForInterest) is over: every summary call
\* is issued (or has thrown) before anything else runs.
FanOut(interests, inst, provider) ==
  [i \in 1..Len(interests) |->
     IF CallOutcome(inst, provider) = "issued"
       THEN [pc |-> "summary", interest |-> interests[i]]
       ELSE [pc |-> "rejected", interest |-> interests[i], cause |-> "thrown",
             overtook |-> FALSE, reason |-> CallOutcome(inst, provider)]]

Reverse(s) == [i \in 1..Len(s) |-> s[Len(s) + 1 - i]]

AggregateUnshift(prefix, ps) ==
  LET failedLine(pipe) == ErrorLine(prefix, pipe.interest, pipe.reason)
      failedItem(pipe) ==
        [interest |-> pipe.interest, summary |-> FAILED_SUMMARY, sources |-> <<>>,
         tweets |-> <<>>, error |-> pipe.reason]
  IN  [briefings |->
         [i \in 1..Len(ps) |->
            IF Reverse(ps)[i].pc = "fulfilled" THEN Reverse(ps)[i].value
            ELSE failedItem(Reverse(ps)[i])],
       errors |-> MapSeq(failedLine, SelectSeq(Reverse(ps), Rejected))]

AggregateAllOrNothing(prefix, ps) ==
  IF \E i \in 1..Len(ps) : Rejected(ps[i])
    THEN [briefings |-> <<>>, errors |-> <<[text |-> "Unexpected error"]>>]
    ELSE [briefings |-> [i \in 1..Len(ps) |-> ps[i].value], errors |-> <<>>]

AggregateBySettling(prefix, ps) ==
  LET early(pipe) == pipe.overtook
      late(pipe) == ~pipe.overtook
      order == SelectSeq(ps, early) \o SelectSeq(ps, late)
      failedLine(pipe) == ErrorLine(prefix, pipe.interest, pipe.reason)
  IN  [briefings |->
         [i \in 1..Len(order) |->
            IF order[i].pc = "fulfilled" THEN order[i].value
            ELSE [interest |-> order[i].interest, summary |-> FAILED_SUMMARY,
                  sources |-> <<>>, tweets |-> <<>>, error |-> order[i].reason]],
       errors |-> MapSeq(failedLine, SelectSeq(order, Rejected))]

\* results.forEach((result, index) => ...) over the settled pipelines
Aggregate(prefix, ps) ==
  LET failedLine(pipe) == ErrorLine(prefix, pipe.interest, pipe.reason)
  IN  [briefings |->
         [i \in 1..Len(ps) |->
            IF ps[i].pc = "fulfilled" THEN ps[i].value
            ELSE ErrorItem(ps[i].interest, ps[i].reason)],
       errors |-> MapSeq(failedLine, SelectSeq(ps, Rejected))]

\* ------------------------------------------------------------------ inputs

\* The interests of a call: n distinct topics T1..Tn in this order, or n times
\* the same topic (the code reads a topic only to pass it on).
TopicLists ==
  {[i \in 1..n |-> "T" \o ToString(i)] : n \in 0..MaxTopics}
  \cup {[i \in 1..n |-> "T1"] : n \in 2..MaxTopics}

\* the model ids a caller passes to setSelectedOllamaModel and setSelectedGroqModel
UserModelIds == {"llama2:13b", "llama3-8b-8192", "no-such-model"}

\* what the Groq backend answers to models.list()
GroqListings ==
  { [failed |-> TRUE, data |-> <<>>],
    [failed |-> FALSE, data |-> <<"mixtral-8x7b-32768", "", "gemma2-9b-it">>] }

\* what a backend call rejects with
Failures ==
  { [isError |-> TRUE, message |-> "Service unavailable"],
    [isError |-> FALSE, message |-> "timeout"] }

\* the texts a backend returns for a summary
SummaryTexts == { <<>>, <<"\n">>, <<"AI", " ", "news">> }

\* searchWeb never throws: it returns the hits or its one-item fallback list
SearchResults(interest) == { <<[title |-> "Search Results Unavailable"]>> }

SourcesFor(provider, interest) ==
  IF provider = "gemini" THEN {<<>>} ELSE SearchResults(interest)

TweetLine(k, len, pad, fence, word) ==
  [k |-> k, len |-> len, pad |-> pad, fence |-> fence, word |-> word]

\* the answers a backend gives to the tweet prompt in an orchestration call
CallTweetAnswers ==
  { [null |-> FALSE,
     text |-> << TweetLine(1, 24, 0, FALSE, TRUE), TweetLine(2, 200, 0, FALSE, FALSE),
                 TweetLine(3, 280, 0, FALSE, FALSE), TweetLine(4, 190, 0, FALSE, FALSE),
                 TweetLine(5, 185, 0, FALSE, FALSE) >>] }

JsonTopics(n) == [i \in 1..n |-> Topic("T" \o ToString(i), "D" \o ToString(i))]

TrendLine(k, len, colon) ==
  [k |-> k, len |-> len, pad |-> 0, colon |-> colon,
   clean |-> "L" \o ToString(k), head |-> "T" \o ToString(k),
   tail |-> "D" \o ToString(k)]

JsonText(n) ==
  [json |-> "object", hasTopics |-> TRUE, topics |-> JsonTopics(n),
   lines |-> <<TrendLine(1, 40, "inside")>>]

\* the text {"topics": [null]}
NullTopicText ==
  [json |-> "object", hasTopics |-> TRUE, topics |-> <<NULL_TOPIC>>,
   lines |-> <<TrendLine(1, 18, "inside")>>]

\* the answers a backend gives to the trending prompt in an orchestration call
CallTrendingAnswers ==
  { [null |-> FALSE, text |-> JsonText(0)],
    [null |-> FALSE, text |-> JsonText(4)],
    [null |-> FALSE, text |-> NullTopicText],
    [null |-> FALSE,
     text |-> [json |-> "invalid", hasTopics |-> FALSE, topics |-> <<>>,
               lines |-> <<TrendLine(1, 5, "none")>>]] }

\* the kinds of line of the texts given to the tweet parser
TweetLineKinds ==
  { TweetLine(0, 10, 0, FALSE, FALSE),   \* too short by one
    TweetLine(0, 9, 2, FALSE, FALSE),    \* long enough only with its whitespace
    TweetLine(0, 11, 0, FALSE, FALSE),
    TweetLine(0, 270, 2, FALSE, FALSE),  \* at the limit once trimmed
    TweetLine(0, 271, 0, FALSE, FALSE),
    TweetLine(0, 20, 0, TRUE, FALSE),
    TweetLine(0, 30, 0, FALSE, TRUE) }

Numbered(kinds) == [i \in 1..Len(kinds) |-> [kinds[i] EXCEPT !.k = i]]

TweetTexts ==
  {EMPTY_TEXT} \cup
  UNION {{Numbered(kinds) : kinds \in [1..n -> TweetLineKinds]} : n \in 1..MaxLines}

\* Gemini's response.text() is always a text; the text of a Groq or Ollama
\* answer may be missing
TweetAnswers(provider) ==
  {[null |-> FALSE, text |-> text] : text \in TweetTexts}
  \cup (IF provider = "gemini" THEN {} ELSE {[null |-> TRUE, text |-> EMPTY_TEXT]})

TrendLineKinds ==
  { [len |-> 5, colon |-> "none"], [len |-> 20, colon |-> "none"],
    [len |-> 30, colon |-> "inside"], [len |-> 15, colon |-> "first"] }

TrendLines ==
  UNION {{[i \in 1..n |-> TrendLine(i, kinds[i].len, kinds[i].colon)] :
            kinds \in [1..n -> TrendLineKinds]} : n \in 1..MaxLines}

TrendTexts ==
  {[json |-> j, hasTopics |-> FALSE, topics |-> <<>>, lines |-> lines] :
     j \in {"invalid", "null", "object"}, lines \in TrendLines}
  \cup {[json |-> "object", hasTopics |-> TRUE, topics |-> JsonTopics(n), lines |-> lines] :
          n \in 0..MaxJsonTopics, lines \in TrendLines}
  \cup {NullTopicText}

TrendingAnswers(provider) ==
  {[null |-> FALSE, text |-> text] : text \in TrendTexts}
  \cup (IF provider = "gemini" THEN {} ELSE {[null |-> TRUE, text |-> EMPTY_TRENDING]})

\* ----------------------------------------------------------- registry actions

\* a caller lists the Ollama models (getAvailableModels('ollama'))
ListOllamaModels ==
  /\ providerState' = OllamaListed(providerState)
  /\ lastListed' = [lastListed EXCEPT !.ollama = OllamaModelsReturned]
  /\ UNCHANGED <<geminiKey, groqKey, instanceModel, call, pipes, response,
                 genCalls, parse>>

\* a caller lists the Groq models (getAvailableModels('groq'))
ListGroqModelsOn(listing) ==
  /\ providerState' = GroqListed(providerState, listing)
  /\ lastListed' = [lastListed EXCEPT !.groq = GroqModelsReturned(listing)]
  /\ UNCHANGED <<geminiKey, groqKey, instanceModel, call, pipes, response,
                 genCalls, parse>>

ListGroqModels == \E listing \in GroqListings : ListGroqModelsOn(listing)

SetSelectedAlways(provider, model) ==
  /\ providerState' = [providerState EXCEPT ![provider].selectedModel = model]
  /\ instanceModel' = [instanceModel EXCEPT ![provider] = model]
  /\ UNCHANGED <<geminiKey, groqKey, lastListed, call, pipes, response, genCalls, parse>>

\* setSelectedOllamaModel and setSelectedGroqModel
SetSelectedModel(provider, model) ==
  /\ IF Includes(providerState[provider].models, model)
       THEN /\ providerState' = [providerState EXCEPT ![provider].selectedModel = model]
            /\ instanceModel' = [instanceModel EXCEPT ![provider] = model]
       ELSE UNCHANGED <<providerState, instanceModel>>
  /\ UNCHANGED <<geminiKey, groqKey, lastListed, call, pipes, response, genCalls, parse>>

SetSelectedOllamaModel == \E model \in UserModelIds : SetSelectedModel("ollama", model)

SetSelectedGroqModel == \E model \in UserModelIds : SetSelectedModel("groq", model)

\* -------------------------------------------------------- orchestration actions

\* Pipeline i of a generateBriefing call settles while the pipeline of an
\* earlier topic is still pending (kept in the settled pipeline for the record;
\* the code does not read it).
Overtook(i) ==
  /\ call.op = "generateBriefing"
  /\ \E j \in 1..(i - 1) : ~Settled(pipes[j])

CanStart == call.phase \in {"idle", "returned"}

\* generateBriefing up to its await of Promise.allSettled: the availability
\* check (which lists the Ollama models), the choice of the provider, and the
\* synchronous start of every pipeline.
StartGenerateBriefing ==
  /\ CanStart
  /\ \E interests \in TopicLists, requested \in Providers :
    LET ps == OllamaListed(providerState)
        available == AvailableProviders(ps)
        provider == ResolveProvider(available, requested)
        inst == SyncedModel(instanceModel, ps, provider)
    IN  /\ providerState' = ps
        /\ lastListed' = [lastListed EXCEPT !.ollama = OllamaModelsReturned]
        /\ IF provider = NULL
             THEN /\ call' = [op |-> "generateBriefing", phase |-> "returned",
                              requested |-> requested, available |-> available,
                              provider |-> NULL, interests |-> interests,
                              topics |-> <<>>, discovered |-> FALSE]
                  /\ response' = [briefings |-> <<>>, errors |-> <<NO_PROVIDERS>>]
                  /\ pipes' = <<>>
                  /\ genCalls' = {}
                  /\ UNCHANGED instanceModel
             ELSE /\ call' = [op |-> "generateBriefing", phase |-> "running",
                              requested |-> requested, available |-> available,
                              provider |-> provider, interests |-> interests,
                              topics |-> <<>>, discovered |-> FALSE]
                  /\ response' = NoResponse
                  /\ pipes' = FanOut(interests, inst, provider)
                  /\ instanceModel' = IF Len(interests) > 0 THEN inst ELSE instanceModel
                  /\ genCalls' = IF Len(interests) > 0
                                   THEN {CallRecord("generateSummary", inst, ps, provider)}
                                   ELSE {}
        /\ UNCHANGED <<geminiKey, groqKey, parse>>

\* generateTrendingBriefing up to its await of getTrendingTopics
StartGenerateTrendingBriefing ==
  /\ CanStart
  /\ \E requested \in Providers :
    LET ps == OllamaListed(providerState)
        available == AvailableProviders(ps)
        provider == ResolveProvider(available, requested)
        inst == SyncedModel(instanceModel, ps, provider)
    IN  /\ providerState' = ps
        /\ lastListed' = [lastListed EXCEPT !.ollama = OllamaModelsReturned]
        /\ pipes' = <<>>
        /\ IF provider = NULL
             THEN /\ call' = [op |-> "generateTrendingBriefing", phase |-> "returned",
                              requested |-> requested, available |-> available,
                              provider |-> NULL, interests |-> <<>>, topics |-> <<>>, discovered |-> FALSE]
                  /\ response' = [briefings |-> <<>>, errors |-> <<NO_PROVIDERS>>]
                  /\ genCalls' = {}
                  /\ UNCHANGED instanceModel
             ELSE /\ instanceModel' = inst
                  /\ genCalls' = {CallRecord("getTrendingTopics", inst, ps, provider)}
                  /\ IF CallOutcome(inst, provider) = "issued"
                       THEN /\ call' = [op |-> "generateTrendingBriefing",
                                        phase |-> "discover", requested |-> requested,
                                        available |-> available, provider |-> provider,
                                        interests |-> <<>>, topics |-> <<>>, discovered |-> FALSE]
                            /\ response' = NoResponse
                       ELSE /\ call' = [op |-> "generateTrendingBriefing",
                                        phase |-> "returned", requested |-> requested,
                                        available |-> available, provider |-> provider,
                                        interests |-> <<>>, topics |-> <<>>, discovered |-> FALSE]
                            /\ response' = TrendingCatch(CallOutcome(inst, provider))
        /\ UNCHANGED <<geminiKey, groqKey, parse>>

TitleOf(topic) == topic.title

\* the backend answers the trending prompt: the answer is parsed and, when it
\* holds a topic, the pipelines of the first three topics are started.  The
\* map callback reads topic.title: on a null element it throws, after the
\* pipelines of the topics before it were started, and the catch of
\* generateTrendingBriefing returns.
TrendingAnswered ==
  /\ call.phase = "discover"
  /\ \E answer \in CallTrendingAnswers :
    LET topics == TrendingOfAnswer(call.provider, answer)
        started == Slice(topics, MaxTrending)
        inst == SyncedModel(instanceModel, providerState, call.provider)
    IN  /\ IF Len(topics) = 0
             THEN /\ call' = [call EXCEPT !.phase = "returned", !.topics = topics,
                                          !.discovered = TRUE]
                  /\ response' = [briefings |-> <<>>, errors |-> <<NO_TOPICS>>]
                  /\ UNCHANGED <<pipes, instanceModel, genCalls>>
             ELSE IF \E i \in 1..Len(started) : IsNullTopic(started[i])
             THEN /\ call' = [call EXCEPT !.phase = "returned", !.topics = topics,
                                          !.discovered = TRUE]
                  /\ response' = TrendingCatch(NULL_TITLE_ERROR)
                  /\ pipes' = <<>>
                  /\ IF IsNullTopic(started[1])
                       THEN UNCHANGED <<instanceModel, genCalls>>
                       ELSE /\ instanceModel' = inst
                            /\ genCalls' = genCalls \cup
                                 {CallRecord("generateSummary", inst, providerState,
                                             call.provider)}
             ELSE /\ call' = [call EXCEPT !.phase = "running", !.topics = topics,
                                          !.discovered = TRUE,
                                          !.interests = MapSeq(TitleOf, started)]
                  /\ pipes' = FanOut(MapSeq(TitleOf, started), inst, call.provider)
                  /\ instanceModel' = inst
                  /\ genCalls' = genCalls \cup
                       {CallRecord("generateSummary", inst, providerState, call.provider)}
                  /\ UNCHANGED response
        /\ UNCHANGED <<geminiKey, groqKey, lastListed, providerState, parse>>

\* the backend fails the trending prompt: the catch of generateTrendingBriefing
TrendingFailed ==
  /\ call.phase = "discover"
  /\ \E failure \in Failures :
    /\ call' = [call EXCEPT !.phase = "returned"]
    /\ response' = TrendingCatch(IF failure.isError THEN failure.message
                                  ELSE "Unknown error")
    /\ UNCHANGED <<geminiKey, groqKey, lastListed, providerState, instanceModel, pipes,
                   genCalls, parse>>

\* the summary call of pipeline i is rejected by the backend
SummaryFailed(i) ==
  /\ pipes[i].pc = "summary"
  /\ \E failure \in Failures :
    /\ pipes' = [pipes EXCEPT ![i] =
                   [pc |-> "rejected", interest |-> pipes[i].interest,
                    cause |-> "backend", overtook |-> Overtook(i),
                    reason |-> RethrownMessage(failure)]]
    /\ UNCHANGED <<geminiKey, groqKey, lastListed, providerState, instanceModel, call,
                   response, genCalls, parse>>

SummaryAnsweredUnchecked(i) ==
  /\ pipes[i].pc = "summary"
  /\ \E text \in SummaryTexts, sources \in SourcesFor(call.provider, pipes[i].interest) :
    LET inst == SyncedModel(instanceModel, providerState, call.provider)
    IN  /\ instanceModel' = inst
        /\ genCalls' = genCalls \cup
             {CallRecord("generateTweets", inst, providerState, call.provider)}
        /\ pipes' = [pipes EXCEPT ![i] =
             [pc |-> "tweets", interest |-> pipes[i].interest,
              summary |-> renderMarkdown(text), sources |-> sources]]
        /\ UNCHANGED <<geminiKey, groqKey, lastListed, providerState, call, response, parse>>

\* the summary call of pipeline i returns: an empty summary rejects the
\* pipeline, any other one is followed by the tweets call
SummaryAnswered(i) ==
  /\ pipes[i].pc = "summary"
  /\ \E text \in SummaryTexts, sources \in SourcesFor(call.provider, pipes[i].interest) :
    LET summary == renderMarkdown(text)
        inst == SyncedModel(instanceModel, providerState, call.provider)
    IN  /\ IF summary = <<>>
             THEN /\ pipes' = [pipes EXCEPT ![i] =
                                 [pc |-> "rejected", interest |-> pipes[i].interest,
                                  cause |-> "empty", overtook |-> Overtook(i),
                                  reason |-> EMPTY_SUMMARY_ERROR]]
                  /\ UNCHANGED <<instanceModel, genCalls>>
             ELSE /\ instanceModel' = inst
                  /\ genCalls' = genCalls \cup
                       {CallRecord("generateTweets", inst, providerState, call.provider)}
                  /\ pipes' = [pipes EXCEPT ![i] =
                       IF CallOutcome(inst, call.provider) = "issued"
                         THEN [pc |-> "tweets", interest |-> pipes[i].interest,
                               summary |-> summary, sources |-> sources]
                         ELSE [pc |-> "fulfilled", interest |-> pipes[i].interest,
                               posts |-> "thrown", overtook |-> Overtook(i),
                               value |-> BriefingItem(pipes[i].interest, summary, sources,
                                           TopicPlaceholders(pipes[i].interest))]]
        /\ UNCHANGED <<geminiKey, groqKey, lastListed, providerState, call, response, parse>>

TweetsFailedFatal(i) ==
  /\ pipes[i].pc = "tweets"
  /\ pipes' = [pipes EXCEPT ![i] =
       [pc |-> "rejected", interest |-> pipes[i].interest, cause |-> "backend",
        overtook |-> Overtook(i), reason |-> UNKNOWN_ERROR]]
  /\ UNCHANGED <<geminiKey, groqKey, lastListed, providerState, instanceModel, call,
                 response, genCalls, parse>>

\* the tweets call of pipeline i is rejected: the placeholders of the interest
TweetsFailed(i) ==
  /\ pipes[i].pc = "tweets"
  /\ pipes' = [pipes EXCEPT ![i] =
       [pc |-> "fulfilled", interest |-> pipes[i].interest, posts |-> "failed",
        overtook |-> Overtook(i),
        value |-> BriefingItem(pipes[i].interest, pipes[i].summary, pipes[i].sources,
                               TopicPlaceholders(pipes[i].interest))]]
  /\ UNCHANGED <<geminiKey, groqKey, lastListed, providerState, instanceModel, call,
                 response, genCalls, parse>>

\* the tweets call of pipeline i returns and its text is parsed
TweetsAnswered(i) ==
  /\ pipes[i].pc = "tweets"
  /\ \E answer \in CallTweetAnswers :
    /\ pipes' = [pipes EXCEPT ![i] =
         [pc |-> "fulfilled", interest |-> pipes[i].interest, posts |-> "answered",
          overtook |-> Overtook(i),
          value |-> BriefingItem(pipes[i].interest, pipes[i].summary, pipes[i].sources,
                                 ParseTweets(ContentOf(call.provider, answer)))]]
    /\ UNCHANGED <<geminiKey, groqKey, lastListed, providerState, instanceModel, call,
                   response, genCalls, parse>>

PipelineStep ==
  /\ call.phase = "running"
  /\ \E i \in 1..Len(pipes) :
    \/ SummaryFailed(i)
    \/ SummaryAnswered(i)
    \/ TweetsFailed(i)
    \/ TweetsAnswered(i)

ErrorPrefix ==
  IF call.op = "generateBriefing"
    THEN "Failed to generate briefing for"
    ELSE "Failed to generate briefing for trending topic"

ReturnBriefingsEarly ==
  /\ call.phase = "running"
  /\ \/ \A i \in 1..Len(pipes) : Settled(pipes[i])
     \/ \E i \in 1..Len(pipes) : Rejected(pipes[i])
  /\ response' = Aggregate(ErrorPrefix, SelectSeq(pipes, Settled))
  /\ call' = [call EXCEPT !.phase = "returned"]
  /\ UNCHANGED <<geminiKey, groqKey, lastListed, providerState, instanceModel, pipes,
                 genCalls, parse>>

\* Promise.allSettled resolves once every pipeline is settled; the results are
\* collected and the call returns
ReturnBriefings ==
  /\ call.phase = "running"
  /\ \A i \in 1..Len(pipes) : Settled(pipes[i])
  /\ response' = Aggregate(ErrorPrefix, pipes)
  /\ call' = [call EXCEPT !.phase = "returned"]
  /\ UNCHANGED <<geminiKey, groqKey, lastListed, providerState, instanceModel, pipes,
                 genCalls, parse>>

\* getProviders: the availability check alone (its catch is never entered:
\* getAvailableProviders does not throw)
GetProviders ==
  /\ CanStart
  /\ LET ps == OllamaListed(providerState)
     IN  /\ providerState' = ps
         /\ lastListed' = [lastListed EXCEPT !.ollama = OllamaModelsReturned]
         /\ call' = [op |-> "getProviders", phase |-> "returned", requested |-> NULL,
                     available |-> AvailableProviders(ps), provider |-> NULL,
                     interests |-> <<>>, topics |-> <<>>, discovered |-> FALSE]
         /\ response' = NoResponse
         /\ pipes' = <<>>
         /\ genCalls' = {}
  /\ UNCHANGED <<geminiKey, groqKey, instanceModel, parse>>

TestResult(success, message) == [success |-> success, message |-> message]

\* testProviderConnection up to its await of generateSummary
StartTestProviderConnection ==
  /\ CanStart
  /\ \E provider \in Providers :
    LET ps == OllamaListed(providerState)
        available == AvailableProviders(ps)
        inst == SyncedModel(instanceModel, ps, provider)
    IN  /\ providerState' = ps
        /\ lastListed' = [lastListed EXCEPT !.ollama = OllamaModelsReturned]
        /\ pipes' = <<>>
        /\ IF ~Includes(available, provider)
             THEN /\ call' = [op |-> "testProviderConnection", phase |-> "returned",
                              requested |-> provider, available |-> available,
                              provider |-> NULL, interests |-> <<>>, topics |-> <<>>, discovered |-> FALSE]
                  /\ response' = TestResult(FALSE, "is not available. Please check your configuration.")
                  /\ genCalls' = {}
                  /\ UNCHANGED instanceModel
             ELSE /\ instanceModel' = inst
                  /\ genCalls' = {CallRecord("generateSummary", inst, ps, provider)}
                  /\ IF CallOutcome(inst, provider) = "issued"
                       THEN /\ call' = [op |-> "testProviderConnection", phase |-> "testing",
                                        requested |-> provider, available |-> available,
                                        provider |-> provider, interests |-> <<>>,
                                        topics |-> <<>>, discovered |-> FALSE]
                            /\ response' = NoResponse
                       ELSE /\ call' = [op |-> "testProviderConnection", phase |-> "returned",
                                        requested |-> provider, available |-> available,
                                        provider |-> provider, interests |-> <<>>,
                                        topics |-> <<>>, discovered |-> FALSE]
                            /\ response' = TestResult(FALSE, CallOutcome(inst, provider))
        /\ UNCHANGED <<geminiKey, groqKey, parse>>

TestAnsweredAlwaysWorking(text) ==
  /\ call.phase = "testing"
  /\ call' = [call EXCEPT !.phase = "returned"]
  /\ response' = TestResult(TRUE, "is working correctly!")
  /\ UNCHANGED <<geminiKey, groqKey, lastListed, providerState, instanceModel, pipes,
                 genCalls, parse>>

\* the backend answers the test request with text: success iff the summary
\* rendered from it is not empty
TestAnsweredOn(text) ==
  /\ call.phase = "testing"
  /\ call' = [call EXCEPT !.phase = "returned"]
  /\ response' = IF renderMarkdown(text) # <<>>
                   THEN TestResult(TRUE, "is working correctly!")
                   ELSE TestResult(FALSE, "returned empty response.")
  /\ UNCHANGED <<geminiKey, groqKey, lastListed, providerState, instanceModel, pipes,
                 genCalls, parse>>

TestAnswered == \E text \in SummaryTexts : TestAnsweredOn(text)

\* the backend fails the test request: the catch of testProviderConnection
TestFailed ==
  /\ call.phase = "testing"
  /\ \E failure \in Failures :
    /\ call' = [call EXCEPT !.phase = "returned"]
    /\ response' = TestResult(FALSE, IF failure.isError THEN failure.message
                                     ELSE "Unknown error")
    /\ UNCHANGED <<geminiKey, groqKey, lastListed, providerState, instanceModel, pipes,
                   genCalls, parse>>

\* ------------------------------------------------------------ specification

NoParse == [fn |-> "none"]

Init ==
  /\ geminiKey \in BOOLEAN
  /\ groqKey \in BOOLEAN
  /\ providerState =
       [ollama |-> [models |-> <<>>, selectedModel |-> NULL],
        groq |-> [models |-> <<>>, selectedModel |-> NULL]]
  /\ instanceModel = [groq |-> NULL, ollama |-> NULL]
  /\ call = IdleCall
  /\ pipes = <<>>
  /\ response = NoResponse
  /\ genCalls = {}
  /\ parse = NoParse
  /\ lastListed = [ollama |-> <<>>, groq |-> <<>>]

\* generateTweets of an adapter, from the backend's answer on
RunGenerateTweets ==
  /\ parse.fn = "generateTweets"
  /\ ~parse.done
  /\ parse' = [parse EXCEPT !.done = TRUE,
                             !.out = ParseTweets(ContentOf(parse.provider, parse.answer))]
  /\ UNCHANGED <<geminiKey, groqKey, lastListed, providerState, instanceModel, call, pipes,
                 response, genCalls>>

\* getTrendingTopics of an adapter, from the backend's answer on
RunGetTrendingTopics ==
  /\ parse.fn = "getTrendingTopics"
  /\ ~parse.done
  /\ parse' = [parse EXCEPT !.done = TRUE,
                             !.out = TrendingOfAnswer(parse.provider, parse.trending)]
  /\ UNCHANGED <<geminiKey, groqKey, lastListed, providerState, instanceModel, call, pipes,
                 response, genCalls>>

ParseInputs ==
  {[fn |-> "generateTweets", provider |-> p, answer |-> a, done |-> FALSE, out |-> <<>>] :
     p \in {"gemini"}, a \in TweetAnswers("gemini")}
  \cup {[fn |-> "generateTweets", provider |-> p, answer |-> a, done |-> FALSE, out |-> <<>>] :
          p \in {"groq", "ollama"}, a \in TweetAnswers("groq")}
  \cup {[fn |-> "getTrendingTopics", provider |-> p, trending |-> a, done |-> FALSE, out |-> <<>>] :
          p \in {"gemini"}, a \in TrendingAnswers("gemini")}
  \cup {[fn |-> "getTrendingTopics", provider |-> p, trending |-> a, done |-> FALSE, out |-> <<>>] :
          p \in {"groq", "ollama"}, a \in TrendingAnswers("groq")}

\* the adapters' parsers on every answer of the input sets
InitParse ==
  /\ geminiKey = TRUE
  /\ groqKey = TRUE
  /\ providerState =
       [ollama |-> [models |-> <<>>, selectedModel |-> NULL],
        groq |-> [models |-> <<>>, selectedModel |-> NULL]]
  /\ instanceModel = [groq |-> NULL, ollama |-> NULL]
  /\ call = IdleCall
  /\ pipes = <<>>
  /\ response = NoResponse
  /\ genCalls = {}
  /\ parse \in ParseInputs
  /\ lastListed = [ollama |-> <<>>, groq |-> <<>>]

NextParse == RunGenerateTweets \/ RunGetTrendingTopics

SpecParse == InitParse /\ [][NextParse]_vars

Next ==
  \/ ListOllamaModels
  \/ ListGroqModels
  \/ SetSelectedOllamaModel
  \/ SetSelectedGroqModel
  \/ StartGenerateBriefing
  \/ StartGenerateTrendingBriefing
  \/ TrendingAnswered
  \/ TrendingFailed
  \/ PipelineStep
  \/ ReturnBriefings
  \/ GetProviders
  \/ StartTestProviderConnection
  \/ TestAnswered
  \/ TestFailed

Spec == Init /\ [][Next]_vars

\* generateBriefing calls and the registry operations alone
NextBriefing ==
  \/ ListOllamaModels
  \/ ListGroqModels
  \/ SetSelectedOllamaModel
  \/ SetSelectedGroqModel
  \/ StartGenerateBriefing
  \/ PipelineStep
  \/ ReturnBriefings

\* Every pending backend call of a pipeline eventually returns or fails, and
\* the event loop resumes generateBriefing once Promise.allSettled has resolved.
SpecBriefing ==
  Init /\ [][NextBriefing]_vars /\ WF_vars(PipelineStep) /\ WF_vars(ReturnBriefings)

\* ------------------------------------------------------------------ claims

Returned(op) == call.op = op /\ call.phase = "returned"

\* the call ran its pipelines and returned what they settled to
Aggregated(op) == Returned(op) /\ call.provider # NULL

AllPostsAnswered ==
  \A i \in 1..Len(pipes) : pipes[i].pc = "fulfilled" /\ pipes[i].posts = "answered"

\* C1: when the summary call and the posts call of every topic succeed,
\* generateBriefing returns one entry per topic, entry i being the value the
\* pipeline of topic i produced, for topic i and with no error, and the errors
\* list is empty.
C1_AllSucceed ==
  (Aggregated("generateBriefing") /\ AllPostsAnswered) =>
    /\ Len(response.briefings) = Len(call.interests)
    /\ \A i \in 1..Len(call.interests) :
         /\ response.briefings[i] = pipes[i].value
         /\ response.briefings[i].interest = call.interests[i]
         /\ ~HasError(response.briefings[i])
         /\ response.briefings[i].summary # <<>>
    /\ response.errors = <<>>

C1_Witness ==
  /\ Aggregated("generateBriefing")
  /\ AllPostsAnswered
  /\ call.interests = <<"T1", "T2">>
  /\ Len(response.briefings) = 2

FailedTopics == {i \in 1..Len(pipes) : Rejected(pipes[i])}

\* the j-th failed topic, in request order
NthFailed(j) ==
  CHOOSE i \in FailedTopics : Cardinality({h \in FailedTopics : h <= i}) = j

\* C2: whatever set F of topics fails, generateBriefing returns one entry per
\* topic; the entry of each topic of F carries a non-empty error; the errors
\* list has |F| messages, the j-th naming the j-th failed topic; and the entry
\* of every other topic is the value its own pipeline produced.
C2_Isolation ==
  Aggregated("generateBriefing") =>
    /\ Len(response.briefings) = Len(call.interests)
    /\ \A i \in FailedTopics :
         /\ HasError(response.briefings[i])
         /\ response.briefings[i].error # ""
    /\ Len(response.errors) = Cardinality(FailedTopics)
    /\ \A j \in 1..Len(response.errors) :
         /\ response.errors[j].topic = call.interests[NthFailed(j)]
         /\ response.errors[j].message = pipes[NthFailed(j)].reason
    /\ \A i \in (1..Len(pipes)) \ FailedTopics :
         /\ response.briefings[i] = pipes[i].value
         /\ ~HasError(response.briefings[i])

C2_Witness ==
  /\ Aggregated("generateBriefing")
  /\ call.interests = <<"T1", "T2">>
  /\ FailedTopics = {1}
  /\ pipes[2].posts = "answered"
  /\ Len(response.errors) = 1

SummaryCallFailed(i) == Rejected(pipes[i]) /\ pipes[i].cause \in {"thrown", "backend"}

\* C3 as stated: the entry of a topic whose summary call failed has the topic
\* as interest, the empty string as summary, no tweets and the failure message
\* as error.
C3_EmptySummary ==
  (call.phase = "returned" /\ call.provider # NULL) =>
    \A i \in 1..Len(pipes) :
      SummaryCallFailed(i) =>
        /\ response.briefings[i].interest = call.interests[i]
        /\ response.briefings[i].summary = <<>>
        /\ response.briefings[i].tweets = <<>>
        /\ HasError(response.briefings[i])

\* C3 amended: the entry of a topic whose summary call failed has the topic as
\* interest, the fixed text 'Failed to generate summary due to an error.' as
\* summary, no tweets, no sources, and the failure message as error.
C3_PlaceholderSummary ==
  (call.phase = "returned" /\ call.provider # NULL) =>
    \A i \in 1..Len(pipes) :
      SummaryCallFailed(i) =>
        /\ response.briefings[i].interest = call.interests[i]
        /\ response.briefings[i].summary = FAILED_SUMMARY
        /\ response.briefings[i].tweets = <<>>
        /\ response.briefings[i].sources = <<>>
        /\ HasError(response.briefings[i])
        /\ response.briefings[i].error = pipes[i].reason

C3_Witness ==
  /\ Aggregated("generateBriefing")
  /\ call.interests = <<"T1">>
  /\ pipes[1].pc = "rejected"
  /\ pipes[1].cause = "backend"
  /\ Len(response.briefings) = 1
  /\ Len(response.errors) = 1

Orchestrating == call.op \in {"generateBriefing", "generateTrendingBriefing"}

\* the lists getAvailableProviders can return: gemini, groq, ollama in this order
OrderedProviderLists ==
  { <<>>, <<"gemini">>, <<"groq">>, <<"ollama">>, <<"gemini", "groq">>,
    <<"gemini", "ollama">>, <<"groq", "ollama">>, <<"gemini", "groq", "ollama">> }

\* C5: every generation call of an orchestration call goes to the requested
\* provider when it is in the available list, else to the first element of
\* that list (which lists gemini, groq, ollama in this order), and never to a
\* provider outside the list.
C5_ProviderResolution ==
  Orchestrating =>
    /\ call.available \in OrderedProviderLists
    /\ \A c \in genCalls :
         /\ Includes(call.available, call.requested) => c.provider = call.requested
         /\ ~Includes(call.available, call.requested) => c.provider = call.available[1]
         /\ Includes(call.available, c.provider)

C5_Witness ==
  /\ Aggregated("generateBriefing")
  /\ call.requested = "gemini"
  /\ call.available = <<"groq", "ollama">>
  /\ \E c \in genCalls : c.op = "generateTweets" /\ c.provider = "groq" /\ c.outcome = "issued"

\* C6: for every adapter and every text the backend returns, the empty string
\* included, generateTweets returns at least 1 and at most 3 posts.
C6_OneToThreePosts ==
  (parse.fn = "generateTweets" /\ parse.done) =>
    (Len(parse.out) >= 1 /\ Len(parse.out) <= 3)

C6_Witness ==
  /\ parse.fn = "generateTweets"
  /\ parse.done
  /\ parse.provider = "gemini"
  /\ parse.answer.text = EMPTY_TEXT
  /\ Len(parse.out) = 3

\* C7: for every adapter and every text the backend returns, getTrendingTopics
\* returns between 1 and 3 topics.
C7_OneToThreeTopics ==
  (parse.fn = "getTrendingTopics" /\ parse.done) =>
    (Len(parse.out) >= 1 /\ Len(parse.out) <= 3)

\* C8: selectModel(id) followed by getSelectedModel returns id when id is in
\* the last list listModels returned for that provider, and otherwise (also
\* before any listing) leaves the selected model as it was.
C8_SelectThenGet ==
  [][\A provider \in {"groq", "ollama"}, id \in UserModelIds :
       SetSelectedModel(provider, id) =>
         IF Includes(lastListed[provider], id)
           THEN getSelectedModel(provider)' = id
           ELSE getSelectedModel(provider)' = getSelectedModel(provider)]_vars

C8_Witness ==
  /\ getSelectedGroqModel = "llama3-8b-8192"
  /\ getSelectedOllamaModel = "llama2:13b"
  /\ Includes(lastListed.groq, "llama3-8b-8192")
  /\ Includes(lastListed.ollama, "llama2:13b")

NoModelErrors ==
  { "No Groq model selected. Please select a model first.", "No Ollama model selected" }

\* C9: a generation call to Groq or Ollama made while the registry has no
\* selected model for it fails with the adapter's "no model selected" error,
\* carries no model and issues no backend call.
C9_NoModelFailsFast ==
  \A c \in genCalls :
    (RequiresModel(c.provider) /\ c.registry = NULL) =>
      (c.outcome \in NoModelErrors /\ c.model = NULL)

C9_Witness ==
  \E c \in genCalls :
    /\ c.op = "generateSummary"
    /\ c.provider = "groq"
    /\ c.registry = NULL
    /\ c.outcome = "No Groq model selected. Please select a model first."

\* C10 as stated: a provider is in the list of the availability check iff its
\* isAvailable check passes and, for Groq and Ollama, its model list is not
\* empty.
C10_ModelListForGroqAndOllama ==
  Orchestrating =>
    \A p \in Providers :
      Includes(call.available, p) <=>
        (isAvailable(p) /\ (RequiresModel(p) => Len(providerState[p].models) > 0))

\* C10 amended: a provider is in the list of the availability check iff its
\* isAvailable check passes and, for Ollama alone, its model list is not empty
\* after the listing the check makes; Groq is listed whenever its credentials
\* are present, whatever its model list.
C10_ModelListForOllama ==
  Orchestrating =>
    \A p \in Providers :
      Includes(call.available, p) <=>
        (isAvailable(p) /\ (p = "ollama" => Len(providerState[p].models) > 0))

C10_Witness ==
  /\ Orchestrating
  /\ Includes(call.available, "groq")
  /\ Includes(call.available, "ollama")
  /\ ~Includes(call.available, "gemini")
  /\ providerState.groq.models = <<>>

\* C11: an orchestration call (generateBriefing with at least one topic, or
\* generateTrendingBriefing) returns zero briefings only when no provider at
\* all is available.
C11_OnlyNoProviderAborts ==
  ( /\ Orchestrating
    /\ call.phase = "returned"
    /\ call.op = "generateBriefing" => Len(call.interests) >= 1
    /\ response.briefings = <<>> )
  => Len(call.available) = 0

WellFormedTopics == \A i \in 1..Len(call.topics) : ~IsNullTopic(call.topics[i])

SummaryCalls == {c \in genCalls : c.op = "generateSummary"}

C13_RequestOrder ==
  Aggregated("generateBriefing") =>
    /\ Len(response.briefings) = Len(call.interests)
    /\ \A i \in 1..Len(call.interests) :
         response.briefings[i].interest = call.interests[i]

C13_Witness ==
  /\ Aggregated("generateBriefing")
  /\ call.interests = <<"T1", "T2">>
  /\ pipes[2].overtook
  /\ pipes[2].pc = "fulfilled"
  /\ Rejected(pipes[1])
  /\ response.briefings[1].interest = "T1"
  /\ response.briefings[2].interest = "T2"

\* an error of the caller-visible list that a failed pipeline put there
PipelineError(e) == "topic" \in DOMAIN e

\* C14: a parse failure never reaches the caller: when the backend answered
\* the trending prompt (whatever its text), no entry of the errors list of
\* generateTrendingBriefing comes from the text the model returned; the only
\* errors are those of failed pipelines.
C14_NoParseErrors ==
  (Returned("generateTrendingBriefing") /\ call.discovered) =>
    \A j \in 1..Len(response.errors) : PipelineError(response.errors[j])

SameCall == call.phase = "running" /\ call'.phase = "running"

\* the posts call of pipeline i ends in this step without an answer
PostsCallFails(i) ==
  /\ pipes[i].pc = "tweets"
  /\ pipes'[i] # pipes[i]
  /\ ~(pipes'[i].pc = "fulfilled" /\ pipes'[i].posts = "answered")

PostsFailed(i) == pipes[i].pc = "fulfilled" /\ pipes[i].posts \in {"failed", "thrown"}

\* C15: when the summary call of a topic returned non-empty text and its posts
\* call fails, the pipeline is fulfilled with the generated summary and the
\* three placeholder posts built from the topic; the entry returned for the
\* topic is this value, without error, and the errors list holds nothing for it.
C15_PostsFailureNotFatal ==
  /\ [][SameCall =>
          \A i \in 1..Len(pipes) :
            PostsCallFails(i) =>
              /\ pipes'[i].pc = "fulfilled"
              /\ pipes'[i].value.summary = Trim(pipes[i].summary)
              /\ pipes'[i].value.summary # <<>>
              /\ pipes'[i].value.tweets = TopicPlaceholders(pipes[i].interest)
              /\ ~HasError(pipes'[i].value)]_vars
  /\ []((call.phase = "returned" /\ call.provider # NULL) =>
          \A i \in 1..Len(pipes) :
            PostsFailed(i) =>
              /\ response.briefings[i] = pipes[i].value
              /\ ~HasError(response.briefings[i])
              /\ response.briefings[i].tweets = TopicPlaceholders(call.interests[i])
              /\ Len(response.errors) = Cardinality(FailedTopics)
              /\ i \notin FailedTopics)

C15_Witness ==
  /\ Aggregated("generateBriefing")
  /\ call.interests = <<"T1">>
  /\ PostsFailed(1)
  /\ response.errors = <<>>
  /\ response.briefings[1].tweets = TopicPlaceholders("T1")
  /\ response.briefings[1].summary = <<"<p>", "AI", " ", "news", "</p>">>

TweetCalls == {c \in genCalls : c.op = "generateTweets"}

\* C16: in each pipeline the posts call is issued only when the summary call
\* of the same topic has returned non-empty text; an empty summary rejects the
\* pipeline (an error entry for the topic) and no posts call is issued for it.
C16_SummaryBeforePosts ==
  /\ [](\A i \in 1..Len(pipes) :
          /\ pipes[i].pc = "tweets" => pipes[i].summary # <<>>
          /\ pipes[i].pc = "fulfilled" => pipes[i].value.summary # <<>>)
  /\ [][SameCall =>
          /\ \A i \in 1..Len(pipes) :
               /\ (pipes'[i].pc = "tweets" /\ pipes[i].pc # "tweets") =>
                    (pipes[i].pc = "summary" /\ TweetCalls' # {})
               /\ (pipes[i].pc = "summary" /\ pipes'[i].pc = "rejected") =>
                    (TweetCalls' = TweetCalls)
               /\ pipes[i].pc = "rejected" => pipes'[i] = pipes[i]
          /\ TweetCalls' # TweetCalls =>
               \E i \in 1..Len(pipes) :
                 /\ pipes[i].pc = "summary"
                 /\ pipes'[i].pc \in {"tweets", "fulfilled"}]_vars
  /\ []((call.phase = "returned" /\ call.provider # NULL) =>
          \A i \in 1..Len(pipes) :
            (Rejected(pipes[i]) /\ pipes[i].cause = "empty") =>
              /\ HasError(response.briefings[i])
              /\ response.briefings[i].error = EMPTY_SUMMARY_ERROR
              /\ response.briefings[i].tweets = <<>>)

C16_Witness ==
  /\ Aggregated("generateBriefing")
  /\ call.interests = <<"T1", "T2">>
  /\ Rejected(pipes[1])
  /\ pipes[1].cause = "empty"
  /\ pipes[2].pc = "fulfilled"
  /\ pipes[2].posts = "answered"
  /\ Cardinality(TweetCalls) = 1

\* C17: generateBriefing returns only when every pipeline it started is
\* settled; a pipeline that fails changes no other pipeline and does not make
\* the call return; and when every backend call returns or fails, the call
\* returns.
C17_WaitsForAll ==
  /\ [](Returned("generateBriefing") /\ call.provider # NULL =>
          /\ Len(pipes) = Len(call.interests)
          /\ \A i \in 1..Len(pipes) : Settled(pipes[i])
          /\ Len(response.briefings) = Len(pipes))
  /\ [][call.phase = "running" =>
          \A i \in 1..Len(pipes) :
            (~Rejected(pipes[i]) /\ Rejected(pipes'[i])) =>
              /\ call' = call
              /\ \A j \in (1..Len(pipes)) \ {i} : pipes'[j] = pipes[j]]_vars
  /\ (call.op = "generateBriefing" /\ call.phase = "running") ~> (call.phase = "returned")

C17_Witness ==
  /\ Aggregated("generateBriefing")
  /\ call.interests = <<"T1", "T2">>
  /\ Rejected(pipes[1])
  /\ ~pipes[1].overtook
  /\ pipes[2].pc = "fulfilled"
  /\ pipes[2].posts = "answered"
  /\ Len(response.briefings) = 2

BriefingCalls == IF call.op = "generateBriefing" THEN genCalls ELSE {}

\* C18 as stated: all the generation calls of one generateBriefing call (the
\* summary call and the posts call of every topic) use the same selected
\* model, whatever selectModel and listModels operations run meanwhile.
C18_OneModelPerCall ==
  \A c1, c2 \in BriefingCalls : c1.model = c2.model

\* C18 amended: every generation call of a generateBriefing call uses the
\* model the registry has selected at the moment the call is issued; so the
\* calls issued under the same selection use the same model, and a selection
\* changed while the call is in flight is used by the calls issued after it.
C18_ModelFollowsRegistry ==
  /\ \A c \in BriefingCalls : c.model = c.registry
  /\ \A c1, c2 \in BriefingCalls : c1.registry = c2.registry => c1.model = c2.model

C18_Witness ==
  \E c1, c2 \in BriefingCalls :
    /\ c1.op = "generateSummary"
    /\ c2.op = "generateTweets"
    /\ c1.provider = "ollama"
    /\ c1.outcome = "issued"
    /\ c2.outcome = "issued"
    /\ c1.model = "llama2"
    /\ c2.model = "llama2:13b"

\* a step of generateBriefing, generateTrendingBriefing, testProviderConnection
\* or of the provider listing
HandlerStep ==
  \/ GetProviders
  \/ StartGenerateBriefing
  \/ StartGenerateTrendingBriefing
  \/ StartTestProviderConnection
  \/ TrendingAnswered
  \/ TrendingFailed
  \/ PipelineStep
  \/ ReturnBriefings
  \/ TestAnswered
  \/ TestFailed

\* C19: the selected model of a provider is written only by the listModels and
\* selectModel operations the caller invokes: no step of generateBriefing,
\* generateTrendingBriefing, testProviderConnection or of the provider listing
\* changes the selected model of Ollama or of Groq.
C19_OnlyExplicitWrites ==
  [][HandlerStep =>
       /\ getSelectedOllamaModel' = getSelectedOllamaModel
       /\ getSelectedGroqModel' = getSelectedGroqModel]_vars

GroqFallbackIds == {GROQ_FALLBACK_MODELS[i] : i \in 1..Len(GROQ_FALLBACK_MODELS)}

\* C20: when the backend's listing call fails (the Groq credentials being
\* present), listGroqModels returns the fixed non-empty fallback list and
\* records it as the model list of Groq, so that selecting any of its members
\* afterwards takes effect.
C20_GroqFallbackList ==
  /\ [][\A listing \in GroqListings :
          (groqKey /\ listing.failed /\ ListGroqModelsOn(listing)) =>
            /\ lastListed'.groq = GROQ_FALLBACK_MODELS
            /\ Len(lastListed'.groq) > 0
            /\ providerState'.groq.models = lastListed'.groq]_vars
  /\ [][\A id \in GroqFallbackIds :
          (lastListed.groq = GROQ_FALLBACK_MODELS /\ SetSelectedModel("groq", id)) =>
            getSelectedGroqModel' = id]_vars

C20_Witness ==
  /\ groqKey
  /\ lastListed.groq = GROQ_FALLBACK_MODELS
  /\ providerState.groq.models = GROQ_FALLBACK_MODELS
  /\ getSelectedGroqModel = "llama3-8b-8192"

TrendingParsed == parse.fn = "getTrendingTopics" /\ parse.done

ParsedContent == TrendingContentOf(parse.provider, parse.trending)

\* the strict tier yields a topic: the text is a JSON object with a non-empty
\* topics list
StrictYields(content) ==
  content.json = "object" /\ content.hasTopics /\ Len(content.topics) > 0

\* the topics of the line-based extraction: the lines longer than 10
\* characters, the first three of them, split at their first colon
HeuristicTopics(content) == GroqTextTopics(content)

FallbackOf(provider) ==
  CASE provider = "gemini" -> GEMINI_FALLBACK_TOPICS
    [] provider = "groq"   -> GROQ_FALLBACK_TOPICS
    [] provider = "ollama" -> OLLAMA_FALLBACK_TOPICS

\* C21: for every adapter, getTrendingTopics returns the strictly parsed
\* topics when the structured parse yields one; otherwise the topics of the
\* line-based extraction when it yields one; otherwise, and only then, the
\* adapter's fixed 3-item list.
C21_ThreeTiers ==
  TrendingParsed =>
    IF StrictYields(ParsedContent)
      THEN Slice(parse.out, MaxTrending) = Slice(ParsedContent.topics, MaxTrending)
    ELSE IF Len(HeuristicTopics(ParsedContent)) > 0
      THEN parse.out = HeuristicTopics(ParsedContent)
    ELSE parse.out = FallbackOf(parse.provider)

TweetsParsed == parse.fn = "generateTweets" /\ parse.done

TweetContent == ContentOf(parse.provider, parse.answer)

\* line n of the text qualifies: trimmed, it is longer than 10 characters, does
\* not start with a code fence and does not contain 'tweet'
QualifyingLine(n) ==
  /\ TweetContent[n].len > 10
  /\ ~TweetContent[n].fence
  /\ ~TweetContent[n].word

QualifyingLines == {n \in 1..Len(TweetContent) : QualifyingLine(n)}

\* the j-th qualifying line, in the order of the text
NthQualifying(j) ==
  CHOOSE n \in QualifyingLines : Cardinality({h \in QualifyingLines : h <= n}) = j

\* C22: the posts generateTweets derives from the backend's text are the first
\* 3 qualifying lines, in the order of the text: post j comes from the j-th
\* qualifying line, and no other line is returned or counted.
C22_FirstThreeQualifying ==
  (TweetsParsed /\ QualifyingLines # {}) =>
    /\ Len(parse.out) = Min(Cardinality(QualifyingLines), 3)
    /\ \A j \in 1..Len(parse.out) :
         /\ parse.out[j].kind = "line"
         /\ parse.out[j].k = NthQualifying(j)

C22_Witness ==
  /\ TweetsParsed
  /\ Len(TweetContent) = 4
  /\ QualifyingLines = {2, 4}
  /\ TweetContent[1].pad > 0
  /\ TweetContent[3].fence
  /\ Len(parse.out) = 2
  /\ parse.out[1].k = 2
  /\ parse.out[2].k = 4

\* C23: every post derived from the backend's text has at most 270
\* characters: a line longer than 270 characters (trimmed) is returned as its
\* first 267 characters and '...', 270 characters in all, and a line of at
\* most 270 characters is returned whole.
C23_AtMost270 ==
  TweetsParsed =>
    \A j \in 1..Len(parse.out) :
      parse.out[j].kind = "line" =>
        LET line == TweetContent[parse.out[j].k]
        IN  /\ PostLength(parse.out[j]) <= 270
            /\ line.len > 270 =>
                 /\ parse.out[j].keep = 267
                 /\ parse.out[j].ellipsis
                 /\ PostLength(parse.out[j]) = 270
            /\ line.len <= 270 =>
                 /\ parse.out[j].keep = line.len
                 /\ ~parse.out[j].ellipsis

C23_Witness ==
  /\ TweetsParsed
  /\ Len(parse.out) = 2
  /\ TweetContent[parse.out[1].k].len = 271
  /\ PostLength(parse.out[1]) = 270
  /\ TweetContent[parse.out[2].k].len = 270
  /\ TweetContent[parse.out[2].k].pad = 2
  /\ PostLength(parse.out[2]) = 270
  /\ ~parse.out[2].ellipsis

ErrorEntry(e) ==
  /\ HasError(e)
  /\ e.error # ""
  /\ e.sources = <<>>
  /\ e.tweets = <<>>

SuccessEntry(e) ==
  /\ ~HasError(e)
  /\ e.summary # <<>>
  /\ Len(e.tweets) >= 1
  /\ Len(e.tweets) <= 3

\* C24: every entry of every list generateBriefing or generateTrendingBriefing
\* returns is either an error entry (error populated, no sources, no tweets)
\* or a success entry (no error, a non-empty summary, 1 to 3 tweets), never
\* both, and no entry has more than 3 tweets.
C24_TwoShapes ==
  (Orchestrating /\ call.phase = "returned") =>
    \A i \in 1..Len(response.briefings) :
      /\ ErrorEntry(response.briefings[i]) \/ SuccessEntry(response.briefings[i])
      /\ ~(ErrorEntry(response.briefings[i]) /\ SuccessEntry(response.briefings[i]))
      /\ Len(response.briefings[i].tweets) <= 3

C24_Witness ==
  /\ Returned("generateTrendingBriefing")
  /\ Len(response.briefings) = 3
  /\ ErrorEntry(response.briefings[1])
  /\ SuccessEntry(response.briefings[2])
  /\ Len(response.briefings[2].tweets) = 3
  /\ pipes[2].posts = "answered"
  /\ SuccessEntry(response.briefings[3])
  /\ pipes[3].posts = "failed"

\* the call in flight, or the last one returned, ran the availability check
Checked == call.op # "none"

ListsOllama ==
  \/ ListOllamaModels
  \/ GetProviders
  \/ StartGenerateBriefing
  \/ StartGenerateTrendingBriefing
  \/ StartTestProviderConnection

\* C26: every listOllamaModels call, the one inside the availability check of
\* generateBriefing, generateTrendingBriefing and testProviderConnection
\* included, leaves the first listed model selected for Ollama, and the
\* Ollama generation calls issued in that step carry that model, whatever
\* model was selected before.
C26_ListingSelectsFirst ==
  [][ListsOllama =>
       /\ getSelectedOllamaModel' = OLLAMA_MOCK_MODELS[1]
       /\ getSelectedOllamaModel' = lastListed'.ollama[1]
       /\ call' # call =>
            \A c \in genCalls' :
              c.provider = "ollama" =>
                (c.model = OLLAMA_MOCK_MODELS[1] /\ c.registry = OLLAMA_MOCK_MODELS[1])]_vars

C26_Witness ==
  /\ call.op = "testProviderConnection"
  /\ call.provider = "gemini"
  /\ getSelectedOllamaModel = "llama2"
  /\ instanceModel.ollama = "llama2:13b"

\* C27: after any sequence of listOllamaModels and setSelectedOllamaModel
\* operations, the selected Ollama model is null or a member of the current
\* Ollama model list.
C27_SelectedOllamaListed ==
  \/ getSelectedOllamaModel = NULL
  \/ Includes(providerState.ollama.models, getSelectedOllamaModel)

C27_Witness ==
  /\ getSelectedOllamaModel = "llama2:13b"
  /\ instanceModel.ollama = "llama2:13b"
  /\ Includes(providerState.ollama.models, "llama2:13b")

\* C28: listGroqModels never changes the selected Groq model, whether the
\* listing succeeds, fails (fallback list) or is not attempted (no
\* credentials), and even when the new list does not hold the selected model.
C28_GroqListingKeepsSelection ==
  [][\A listing \in GroqListings :
       ListGroqModelsOn(listing) => getSelectedGroqModel' = getSelectedGroqModel]_vars

C28_Witness ==
  /\ getSelectedGroqModel = "llama3-8b-8192"
  /\ Len(providerState.groq.models) > 0
  /\ ~Includes(providerState.groq.models, "llama3-8b-8192")

\* the calls of the AIProviderManager that reached the backend
IssuedCalls == {c \in genCalls : c.outcome = "issued"}

\* C29: every Groq or Ollama backend call made through AIProviderManager
\* carries the model the registry reports as selected for that provider at
\* the moment the call is issued, and the adapter's own field holds it too.
C29_CopiesAgreeWhenIssued ==
  /\ \A c \in IssuedCalls :
       RequiresModel(c.provider) => (c.model # NULL /\ c.model = c.registry)
  /\ \A p \in {"groq", "ollama"} :
       (\E c \in IssuedCalls : c.provider = p) => instanceModel[p] # NULL

C29_Witness ==
  /\ call.op = "generateTrendingBriefing"
  /\ \E c \in IssuedCalls :
       /\ c.op = "getTrendingTopics"
       /\ c.provider = "groq"
       /\ c.model = "llama3-8b-8192"
       /\ c.registry = "llama3-8b-8192"
  /\ \E c \in IssuedCalls : c.op = "generateTweets" /\ c.provider = "groq"

Tested == Returned("testProviderConnection")

\* C30: testProviderConnection always returns a (success, message) result;
\* success is true iff the provider is in the available list and the test
\* summary call returned non-empty text; and when the provider is not in the
\* available list no generation call is issued.
C30_TestNeverFails ==
  /\ [](Tested =>
          /\ DOMAIN response = {"success", "message"}
          /\ response.success \in BOOLEAN
          /\ response.success =>
               /\ Includes(call.available, call.requested)
               /\ \E c \in IssuedCalls :
                    c.op = "generateSummary" /\ c.provider = call.requested
          /\ ~Includes(call.available, call.requested) =>
               (genCalls = {} /\ ~response.success))
  /\ [][\A text \in SummaryTexts :
          TestAnsweredOn(text) => (response'.success <=> renderMarkdown(text) # <<>>)]_vars
  /\ [][TestFailed => ~response'.success]_vars

C30_Witness ==
  /\ Tested
  /\ call.requested = "groq"
  /\ response.success
  /\ Includes(call.available, "groq")
=============================================================================
